---------------------------- MODULE Spec2Model ----------------------------
(***************************************************************************)
(* A model of PySegmentKit (src/PySegmentKit/main.py): the transliterator  *)
(* yomi2voca, the grammar/dictionary encoder and the alignment-log scan of *)
(* PySegmentKit.segment, its loop over the files of a batch, and the       *)
(* command line that calls it.                                             *)
(*                                                                         *)
(* Text is modelled character by character: a Python str is a sequence of  *)
(* one-character strings.  ASCII characters stand for themselves; the      *)
(* hiragana of the rewrite table carry their Unicode names ("H_KA" is      *)
(* HIRAGANA LETTER KA, "H_SMALL_YA" is HIRAGANA LETTER SMALL YA,           *)
(* "VOICED_MARK" is U+309B and "LONG_MARK" is U+30FC).                      *)
(*                                                                         *)
(* Times are integers counting units of 0.1 ms (1e-4 s), in which every    *)
(* value segment() computes is exact: one frame of 0.01 s is 100 units and *)
(* offset_align = 25/2/1000 s is 125 units.                                *)
(***************************************************************************)
EXTENDS Integers, Sequences, FiniteSets, TLC

VARIABLES
    disable_silence_at_ends, \* self.disable_silence_at_ends
    transcript,              \* the lines of <basename>.txt
    words,                   \* segment(): words
    dfafile,                 \* the lines written to <basename>.dfa
    dictfile,                \* the lines written to <basename>.dict
    wlist,                   \* segment(): wlist
    log,                     \* the lines of <basename>.log read so far
    reading_alignment,       \* segment(): reading_alignment
    results,                 \* segment(): results
    pc,                      \* where the call stands
    err,                     \* the exception that left the call, or "none"
    yomi,                    \* yomi2voca(): its argument
    voca,                    \* yomi2voca(): voca
    files,                   \* segment(): files, each with its .txt and .log
    basename,                \* segment(): the position of `for basename in files`
    segmented,               \* segment(): segmented
    printed                  \* __main__: the results it prints

vars == << disable_silence_at_ends, transcript, words, dfafile, dictfile,
           wlist, log, reading_alignment, results, pc, err, yomi, voca,
           files, basename, segmented, printed >>

segmentVars == << disable_silence_at_ends, transcript, words, dfafile,
                  dictfile, wlist, log, reading_alignment, results >>

batchVars == << files, basename, segmented, printed >>

-----------------------------------------------------------------------------
(* Characters and the str methods the code uses *)

Lower == {"a", "b", "c", "d", "e", "f", "g", "h", "i", "j", "k", "l", "m",
          "n", "o", "p", "q", "r", "s", "t", "u", "v", "w", "x", "y", "z"}

Upper == {"A", "B", "C", "D", "E", "F", "G", "H", "I", "J", "K", "L", "M",
          "N", "O", "P", "Q", "R", "S", "T", "U", "V", "W", "X", "Y", "Z"}

Digit == {"0", "1", "2", "3", "4", "5", "6", "7", "8", "9"}

\* What str.rstrip() strips (of the characters the model draws).
Whitespace == {" ", "\t"}

RECURSIVE rstrip(_)
rstrip(s) ==
    IF s # <<>> /\ s[Len(s)] \in Whitespace
    THEN rstrip(SubSeq(s, 1, Len(s) - 1))
    ELSE s

\* s[i:] in Python terms, i counted from 1.
From(s, i) == SubSeq(s, i, Len(s))

\* Whether sub occurs in s at position i.
At(s, i, sub) ==
    /\ i + Len(sub) - 1 <= Len(s)
    /\ \A k \in 1..Len(sub) : s[i + k - 1] = sub[k]

\* str.replace(old, new): every non-overlapping occurrence, leftmost first.
RECURSIVE Replace(_, _, _)
Replace(s, old, new) ==
    IF Len(s) < Len(old) THEN s
    ELSE IF At(s, 1, old)
         THEN new \o Replace(From(s, Len(old) + 1), old, new)
         ELSE <<s[1]>> \o Replace(Tail(s), old, new)

-----------------------------------------------------------------------------
(* yomi2voca: the rewrite table, in the order of the method chain *)

Rules ==
    <<
       << <<"H_U", "VOICED_MARK", "H_SMALL_A">>, <<" ", "b", " ", "a">> >>,
       << <<"H_U", "VOICED_MARK", "H_SMALL_I">>, <<" ", "b", " ", "i">> >>,
       << <<"H_U", "VOICED_MARK", "H_SMALL_E">>, <<" ", "b", " ", "e">> >>,
       << <<"H_U", "VOICED_MARK", "H_SMALL_O">>, <<" ", "b", " ", "o">> >>,
       << <<"H_U", "VOICED_MARK", "H_SMALL_YU">>, <<" ", "b", "y", " ", "u">> >>,
       << <<"H_SMALL_U", "VOICED_MARK">>, <<" ", "b", " ", "u">> >>,
       << <<"H_A", "H_SMALL_A">>, <<" ", "a", " ", "a">> >>,
       << <<"H_I", "H_SMALL_I">>, <<" ", "i", " ", "i">> >>,
       << <<"H_I", "H_SMALL_E">>, <<" ", "i", " ", "e">> >>,
       << <<"H_I", "H_SMALL_YA">>, <<" ", "y", " ", "a">> >>,
       << <<"H_U", "H_SMALL_U">>, <<" ", "u", ":">> >>,
       << <<"H_E", "H_SMALL_E">>, <<" ", "e", " ", "e">> >>,
       << <<"H_O", "H_SMALL_O">>, <<" ", "o", ":">> >>,
       << <<"H_KA", "H_SMALL_A">>, <<" ", "k", " ", "a", ":">> >>,
       << <<"H_KI", "H_SMALL_I">>, <<" ", "k", " ", "i", ":">> >>,
       << <<"H_KU", "H_SMALL_U">>, <<" ", "k", " ", "u", ":">> >>,
       << <<"H_KU", "H_SMALL_YA">>, <<" ", "k", "y", " ", "a">> >>,
       << <<"H_KU", "H_SMALL_YU">>, <<" ", "k", "y", " ", "u">> >>,
       << <<"H_KU", "H_SMALL_YO">>, <<" ", "k", "y", " ", "o">> >>,
       << <<"H_KE", "H_SMALL_E">>, <<" ", "k", " ", "e", ":">> >>,
       << <<"H_KO", "H_SMALL_O">>, <<" ", "k", " ", "o", ":">> >>,
       << <<"H_GA", "H_SMALL_A">>, <<" ", "g", " ", "a", ":">> >>,
       << <<"H_GI", "H_SMALL_I">>, <<" ", "g", " ", "i", ":">> >>,
       << <<"H_GU", "H_SMALL_U">>, <<" ", "g", " ", "u", ":">> >>,
       << <<"H_GU", "H_SMALL_YA">>, <<" ", "g", "y", " ", "a">> >>,
       << <<"H_GU", "H_SMALL_YU">>, <<" ", "g", "y", " ", "u">> >>,
       << <<"H_GU", "H_SMALL_YO">>, <<" ", "g", "y", " ", "o">> >>,
       << <<"H_GE", "H_SMALL_E">>, <<" ", "g", " ", "e", ":">> >>,
       << <<"H_GO", "H_SMALL_O">>, <<" ", "g", " ", "o", ":">> >>,
       << <<"H_SA", "H_SMALL_A">>, <<" ", "s", " ", "a", ":">> >>,
       << <<"H_SI", "H_SMALL_I">>, <<" ", "s", "h", " ", "i", ":">> >>,
       << <<"H_SU", "H_SMALL_U">>, <<" ", "s", " ", "u", ":">> >>,
       << <<"H_SU", "H_SMALL_YA">>, <<" ", "s", "h", " ", "a">> >>,
       << <<"H_SU", "H_SMALL_YU">>, <<" ", "s", "h", " ", "u">> >>,
       << <<"H_SU", "H_SMALL_YO">>, <<" ", "s", "h", " ", "o">> >>,
       << <<"H_SE", "H_SMALL_E">>, <<" ", "s", " ", "e", ":">> >>,
       << <<"H_SO", "H_SMALL_O">>, <<" ", "s", " ", "o", ":">> >>,
       << <<"H_ZA", "H_SMALL_A">>, <<" ", "z", " ", "a", ":">> >>,
       << <<"H_ZI", "H_SMALL_I">>, <<" ", "j", " ", "i", ":">> >>,
       << <<"H_ZU", "H_SMALL_U">>, <<" ", "z", " ", "u", ":">> >>,
       << <<"H_ZU", "H_SMALL_YA">>, <<" ", "z", "y", " ", "a">> >>,
       << <<"H_ZU", "H_SMALL_YU">>, <<" ", "z", "y", " ", "u">> >>,
       << <<"H_ZU", "H_SMALL_YO">>, <<" ", "z", "y", " ", "o">> >>,
       << <<"H_ZE", "H_SMALL_E">>, <<" ", "z", " ", "e", ":">> >>,
       << <<"H_ZO", "H_SMALL_O">>, <<" ", "z", " ", "o", ":">> >>,
       << <<"H_TA", "H_SMALL_A">>, <<" ", "t", " ", "a", ":">> >>,
       << <<"H_TI", "H_SMALL_I">>, <<" ", "c", "h", " ", "i", ":">> >>,
       << <<"H_TU", "H_SMALL_A">>, <<" ", "t", "s", " ", "a">> >>,
       << <<"H_TU", "H_SMALL_I">>, <<" ", "t", "s", " ", "i">> >>,
       << <<"H_TU", "H_SMALL_U">>, <<" ", "t", "s", " ", "u", ":">> >>,
       << <<"H_TU", "H_SMALL_YA">>, <<" ", "c", "h", " ", "a">> >>,
       << <<"H_TU", "H_SMALL_YU">>, <<" ", "c", "h", " ", "u">> >>,
       << <<"H_TU", "H_SMALL_YO">>, <<" ", "c", "h", " ", "o">> >>,
       << <<"H_TU", "H_SMALL_E">>, <<" ", "t", "s", " ", "e">> >>,
       << <<"H_TU", "H_SMALL_O">>, <<" ", "t", "s", " ", "o">> >>,
       << <<"H_TE", "H_SMALL_E">>, <<" ", "t", " ", "e", ":">> >>,
       << <<"H_TO", "H_SMALL_O">>, <<" ", "t", " ", "o", ":">> >>,
       << <<"H_DA", "H_SMALL_A">>, <<" ", "d", " ", "a", ":">> >>,
       << <<"H_DI", "H_SMALL_I">>, <<" ", "j", " ", "i", ":">> >>,
       << <<"H_DU", "H_SMALL_U">>, <<" ", "d", " ", "u", ":">> >>,
       << <<"H_DU", "H_SMALL_YA">>, <<" ", "z", "y", " ", "a">> >>,
       << <<"H_DU", "H_SMALL_YU">>, <<" ", "z", "y", " ", "u">> >>,
       << <<"H_DU", "H_SMALL_YO">>, <<" ", "z", "y", " ", "o">> >>,
       << <<"H_DE", "H_SMALL_E">>, <<" ", "d", " ", "e", ":">> >>,
       << <<"H_DO", "H_SMALL_O">>, <<" ", "d", " ", "o", ":">> >>,
       << <<"H_NA", "H_SMALL_A">>, <<" ", "n", " ", "a", ":">> >>,
       << <<"H_NI", "H_SMALL_I">>, <<" ", "n", " ", "i", ":">> >>,
       << <<"H_NU", "H_SMALL_U">>, <<" ", "n", " ", "u", ":">> >>,
       << <<"H_NU", "H_SMALL_YA">>, <<" ", "n", "y", " ", "a">> >>,
       << <<"H_NU", "H_SMALL_YU">>, <<" ", "n", "y", " ", "u">> >>,
       << <<"H_NU", "H_SMALL_YO">>, <<" ", "n", "y", " ", "o">> >>,
       << <<"H_NE", "H_SMALL_E">>, <<" ", "n", " ", "e", ":">> >>,
       << <<"H_NO", "H_SMALL_O">>, <<" ", "n", " ", "o", ":">> >>,
       << <<"H_HA", "H_SMALL_A">>, <<" ", "h", " ", "a", ":">> >>,
       << <<"H_HI", "H_SMALL_I">>, <<" ", "h", " ", "i", ":">> >>,
       << <<"H_HU", "H_SMALL_U">>, <<" ", "f", " ", "u", ":">> >>,
       << <<"H_HU", "H_SMALL_YA">>, <<" ", "h", "y", " ", "a">> >>,
       << <<"H_HU", "H_SMALL_YU">>, <<" ", "h", "y", " ", "u">> >>,
       << <<"H_HU", "H_SMALL_YO">>, <<" ", "h", "y", " ", "o">> >>,
       << <<"H_HE", "H_SMALL_E">>, <<" ", "h", " ", "e", ":">> >>,
       << <<"H_HO", "H_SMALL_O">>, <<" ", "h", " ", "o", ":">> >>,
       << <<"H_BA", "H_SMALL_A">>, <<" ", "b", " ", "a", ":">> >>,
       << <<"H_BI", "H_SMALL_I">>, <<" ", "b", " ", "i", ":">> >>,
       << <<"H_BU", "H_SMALL_U">>, <<" ", "b", " ", "u", ":">> >>,
       << <<"H_HU", "H_SMALL_YA">>, <<" ", "h", "y", " ", "a">> >>,
       << <<"H_BU", "H_SMALL_YU">>, <<" ", "b", "y", " ", "u">> >>,
       << <<"H_HU", "H_SMALL_YO">>, <<" ", "h", "y", " ", "o">> >>,
       << <<"H_BE", "H_SMALL_E">>, <<" ", "b", " ", "e", ":">> >>,
       << <<"H_BO", "H_SMALL_O">>, <<" ", "b", " ", "o", ":">> >>,
       << <<"H_PA", "H_SMALL_A">>, <<" ", "p", " ", "a", ":">> >>,
       << <<"H_PI", "H_SMALL_I">>, <<" ", "p", " ", "i", ":">> >>,
       << <<"H_PU", "H_SMALL_U">>, <<" ", "p", " ", "u", ":">> >>,
       << <<"H_PU", "H_SMALL_YA">>, <<" ", "p", "y", " ", "a">> >>,
       << <<"H_PU", "H_SMALL_YU">>, <<" ", "p", "y", " ", "u">> >>,
       << <<"H_PU", "H_SMALL_YO">>, <<" ", "p", "y", " ", "o">> >>,
       << <<"H_PE", "H_SMALL_E">>, <<" ", "p", " ", "e", ":">> >>,
       << <<"H_PO", "H_SMALL_O">>, <<" ", "p", " ", "o", ":">> >>,
       << <<"H_MA", "H_SMALL_A">>, <<" ", "m", " ", "a", ":">> >>,
       << <<"H_MI", "H_SMALL_I">>, <<" ", "m", " ", "i", ":">> >>,
       << <<"H_MU", "H_SMALL_U">>, <<" ", "m", " ", "u", ":">> >>,
       << <<"H_MU", "H_SMALL_YA">>, <<" ", "m", "y", " ", "a">> >>,
       << <<"H_MU", "H_SMALL_YU">>, <<" ", "m", "y", " ", "u">> >>,
       << <<"H_MU", "H_SMALL_YO">>, <<" ", "m", "y", " ", "o">> >>,
       << <<"H_ME", "H_SMALL_E">>, <<" ", "m", " ", "e", ":">> >>,
       << <<"H_MO", "H_SMALL_O">>, <<" ", "m", " ", "o", ":">> >>,
       << <<"H_YA", "H_SMALL_A">>, <<" ", "y", " ", "a", ":">> >>,
       << <<"H_YU", "H_SMALL_U">>, <<" ", "y", " ", "u", ":">> >>,
       << <<"H_YU", "H_SMALL_YA">>, <<" ", "y", " ", "a", ":">> >>,
       << <<"H_YU", "H_SMALL_YU">>, <<" ", "y", " ", "u", ":">> >>,
       << <<"H_YU", "H_SMALL_YO">>, <<" ", "y", " ", "o", ":">> >>,
       << <<"H_YO", "H_SMALL_O">>, <<" ", "y", " ", "o", ":">> >>,
       << <<"H_RA", "H_SMALL_A">>, <<" ", "r", " ", "a", ":">> >>,
       << <<"H_RI", "H_SMALL_I">>, <<" ", "r", " ", "i", ":">> >>,
       << <<"H_RU", "H_SMALL_U">>, <<" ", "r", " ", "u", ":">> >>,
       << <<"H_RU", "H_SMALL_YA">>, <<" ", "r", "y", " ", "a">> >>,
       << <<"H_RU", "H_SMALL_YU">>, <<" ", "r", "y", " ", "u">> >>,
       << <<"H_RU", "H_SMALL_YO">>, <<" ", "r", "y", " ", "o">> >>,
       << <<"H_RE", "H_SMALL_E">>, <<" ", "r", " ", "e", ":">> >>,
       << <<"H_RO", "H_SMALL_O">>, <<" ", "r", " ", "o", ":">> >>,
       << <<"H_WA", "H_SMALL_A">>, <<" ", "w", " ", "a", ":">> >>,
       << <<"H_WO", "H_SMALL_O">>, <<" ", "o", ":">> >>,
       << <<"H_U", "VOICED_MARK">>, <<" ", "b", " ", "u">> >>,
       << <<"H_DE", "H_SMALL_I">>, <<" ", "d", " ", "i">> >>,
       << <<"H_DE", "H_SMALL_E">>, <<" ", "d", " ", "e", ":">> >>,
       << <<"H_DE", "H_SMALL_YA">>, <<" ", "d", "y", " ", "a">> >>,
       << <<"H_DE", "H_SMALL_YU">>, <<" ", "d", "y", " ", "u">> >>,
       << <<"H_DE", "H_SMALL_YO">>, <<" ", "d", "y", " ", "o">> >>,
       << <<"H_TE", "H_SMALL_I">>, <<" ", "t", " ", "i">> >>,
       << <<"H_TE", "H_SMALL_E">>, <<" ", "t", " ", "e", ":">> >>,
       << <<"H_TE", "H_SMALL_YA">>, <<" ", "t", "y", " ", "a">> >>,
       << <<"H_TE", "H_SMALL_YU">>, <<" ", "t", "y", " ", "u">> >>,
       << <<"H_TE", "H_SMALL_YO">>, <<" ", "t", "y", " ", "o">> >>,
       << <<"H_SU", "H_SMALL_I">>, <<" ", "s", " ", "i">> >>,
       << <<"H_ZU", "H_SMALL_A">>, <<" ", "z", " ", "u", " ", "a">> >>,
       << <<"H_ZU", "H_SMALL_I">>, <<" ", "z", " ", "i">> >>,
       << <<"H_ZU", "H_SMALL_U">>, <<" ", "z", " ", "u">> >>,
       << <<"H_ZU", "H_SMALL_YA">>, <<" ", "z", "y", " ", "a">> >>,
       << <<"H_ZU", "H_SMALL_YU">>, <<" ", "z", "y", " ", "u">> >>,
       << <<"H_ZU", "H_SMALL_YO">>, <<" ", "z", "y", " ", "o">> >>,
       << <<"H_ZU", "H_SMALL_E">>, <<" ", "z", " ", "e">> >>,
       << <<"H_ZU", "H_SMALL_O">>, <<" ", "z", " ", "o">> >>,
       << <<"H_KI", "H_SMALL_YA">>, <<" ", "k", "y", " ", "a">> >>,
       << <<"H_KI", "H_SMALL_YU">>, <<" ", "k", "y", " ", "u">> >>,
       << <<"H_KI", "H_SMALL_YO">>, <<" ", "k", "y", " ", "o">> >>,
       << <<"H_SI", "H_SMALL_YA">>, <<" ", "s", "h", " ", "a">> >>,
       << <<"H_SI", "H_SMALL_YU">>, <<" ", "s", "h", " ", "u">> >>,
       << <<"H_SI", "H_SMALL_E">>, <<" ", "s", "h", " ", "e">> >>,
       << <<"H_SI", "H_SMALL_YO">>, <<" ", "s", "h", " ", "o">> >>,
       << <<"H_TI", "H_SMALL_YA">>, <<" ", "c", "h", " ", "a">> >>,
       << <<"H_TI", "H_SMALL_YU">>, <<" ", "c", "h", " ", "u">> >>,
       << <<"H_TI", "H_SMALL_E">>, <<" ", "c", "h", " ", "e">> >>,
       << <<"H_TI", "H_SMALL_YO">>, <<" ", "c", "h", " ", "o">> >>,
       << <<"H_TO", "H_SMALL_U">>, <<" ", "t", " ", "u">> >>,
       << <<"H_TO", "H_SMALL_YA">>, <<" ", "t", "y", " ", "a">> >>,
       << <<"H_TO", "H_SMALL_YU">>, <<" ", "t", "y", " ", "u">> >>,
       << <<"H_TO", "H_SMALL_YO">>, <<" ", "t", "y", " ", "o">> >>,
       << <<"H_DO", "H_SMALL_A">>, <<" ", "d", " ", "o", " ", "a">> >>,
       << <<"H_DO", "H_SMALL_U">>, <<" ", "d", " ", "u">> >>,
       << <<"H_DO", "H_SMALL_YA">>, <<" ", "d", "y", " ", "a">> >>,
       << <<"H_DO", "H_SMALL_YU">>, <<" ", "d", "y", " ", "u">> >>,
       << <<"H_DO", "H_SMALL_YO">>, <<" ", "d", "y", " ", "o">> >>,
       << <<"H_DO", "H_SMALL_O">>, <<" ", "d", " ", "o", ":">> >>,
       << <<"H_NI", "H_SMALL_YA">>, <<" ", "n", "y", " ", "a">> >>,
       << <<"H_NI", "H_SMALL_YU">>, <<" ", "n", "y", " ", "u">> >>,
       << <<"H_NI", "H_SMALL_YO">>, <<" ", "n", "y", " ", "o">> >>,
       << <<"H_HI", "H_SMALL_YA">>, <<" ", "h", "y", " ", "a">> >>,
       << <<"H_HI", "H_SMALL_YU">>, <<" ", "h", "y", " ", "u">> >>,
       << <<"H_HI", "H_SMALL_YO">>, <<" ", "h", "y", " ", "o">> >>,
       << <<"H_MI", "H_SMALL_YA">>, <<" ", "m", "y", " ", "a">> >>,
       << <<"H_MI", "H_SMALL_YU">>, <<" ", "m", "y", " ", "u">> >>,
       << <<"H_MI", "H_SMALL_YO">>, <<" ", "m", "y", " ", "o">> >>,
       << <<"H_RI", "H_SMALL_YA">>, <<" ", "r", "y", " ", "a">> >>,
       << <<"H_RI", "H_SMALL_YU">>, <<" ", "r", "y", " ", "u">> >>,
       << <<"H_RI", "H_SMALL_YO">>, <<" ", "r", "y", " ", "o">> >>,
       << <<"H_GI", "H_SMALL_YA">>, <<" ", "g", "y", " ", "a">> >>,
       << <<"H_GI", "H_SMALL_YU">>, <<" ", "g", "y", " ", "u">> >>,
       << <<"H_GI", "H_SMALL_YO">>, <<" ", "g", "y", " ", "o">> >>,
       << <<"H_DI", "H_SMALL_E">>, <<" ", "j", " ", "e">> >>,
       << <<"H_DI", "H_SMALL_YA">>, <<" ", "j", " ", "a">> >>,
       << <<"H_DI", "H_SMALL_YU">>, <<" ", "j", " ", "u">> >>,
       << <<"H_DI", "H_SMALL_YO">>, <<" ", "j", " ", "o">> >>,
       << <<"H_ZI", "H_SMALL_E">>, <<" ", "j", " ", "e">> >>,
       << <<"H_ZI", "H_SMALL_YA">>, <<" ", "j", " ", "a">> >>,
       << <<"H_ZI", "H_SMALL_YU">>, <<" ", "j", " ", "u">> >>,
       << <<"H_ZI", "H_SMALL_YO">>, <<" ", "j", " ", "o">> >>,
       << <<"H_BI", "H_SMALL_YA">>, <<" ", "b", "y", " ", "a">> >>,
       << <<"H_BI", "H_SMALL_YU">>, <<" ", "b", "y", " ", "u">> >>,
       << <<"H_BI", "H_SMALL_YO">>, <<" ", "b", "y", " ", "o">> >>,
       << <<"H_PI", "H_SMALL_YA">>, <<" ", "p", "y", " ", "a">> >>,
       << <<"H_PI", "H_SMALL_YU">>, <<" ", "p", "y", " ", "u">> >>,
       << <<"H_PI", "H_SMALL_YO">>, <<" ", "p", "y", " ", "o">> >>,
       << <<"H_U", "H_SMALL_A">>, <<" ", "u", " ", "a">> >>,
       << <<"H_U", "H_SMALL_I">>, <<" ", "w", " ", "i">> >>,
       << <<"H_U", "H_SMALL_E">>, <<" ", "w", " ", "e">> >>,
       << <<"H_U", "H_SMALL_O">>, <<" ", "w", " ", "o">> >>,
       << <<"H_HU", "H_SMALL_A">>, <<" ", "f", " ", "a">> >>,
       << <<"H_HU", "H_SMALL_I">>, <<" ", "f", " ", "i">> >>,
       << <<"H_HU", "H_SMALL_U">>, <<" ", "f", " ", "u">> >>,
       << <<"H_HU", "H_SMALL_YA">>, <<" ", "h", "y", " ", "a">> >>,
       << <<"H_HU", "H_SMALL_YU">>, <<" ", "h", "y", " ", "u">> >>,
       << <<"H_HU", "H_SMALL_YO">>, <<" ", "h", "y", " ", "o">> >>,
       << <<"H_HU", "H_SMALL_E">>, <<" ", "f", " ", "e">> >>,
       << <<"H_HU", "H_SMALL_O">>, <<" ", "f", " ", "o">> >>,
       << <<"H_A">>, <<" ", "a">> >>,
       << <<"H_I">>, <<" ", "i">> >>,
       << <<"H_U">>, <<" ", "u">> >>,
       << <<"H_E">>, <<" ", "e">> >>,
       << <<"H_O">>, <<" ", "o">> >>,
       << <<"H_KA">>, <<" ", "k", " ", "a">> >>,
       << <<"H_KI">>, <<" ", "k", " ", "i">> >>,
       << <<"H_KU">>, <<" ", "k", " ", "u">> >>,
       << <<"H_KE">>, <<" ", "k", " ", "e">> >>,
       << <<"H_KO">>, <<" ", "k", " ", "o">> >>,
       << <<"H_SA">>, <<" ", "s", " ", "a">> >>,
       << <<"H_SI">>, <<" ", "s", "h", " ", "i">> >>,
       << <<"H_SU">>, <<" ", "s", " ", "u">> >>,
       << <<"H_SE">>, <<" ", "s", " ", "e">> >>,
       << <<"H_SO">>, <<" ", "s", " ", "o">> >>,
       << <<"H_TA">>, <<" ", "t", " ", "a">> >>,
       << <<"H_TI">>, <<" ", "c", "h", " ", "i">> >>,
       << <<"H_TU">>, <<" ", "t", "s", " ", "u">> >>,
       << <<"H_TE">>, <<" ", "t", " ", "e">> >>,
       << <<"H_TO">>, <<" ", "t", " ", "o">> >>,
       << <<"H_NA">>, <<" ", "n", " ", "a">> >>,
       << <<"H_NI">>, <<" ", "n", " ", "i">> >>,
       << <<"H_NU">>, <<" ", "n", " ", "u">> >>,
       << <<"H_NE">>, <<" ", "n", " ", "e">> >>,
       << <<"H_NO">>, <<" ", "n", " ", "o">> >>,
       << <<"H_HA">>, <<" ", "h", " ", "a">> >>,
       << <<"H_HI">>, <<" ", "h", " ", "i">> >>,
       << <<"H_HU">>, <<" ", "f", " ", "u">> >>,
       << <<"H_HE">>, <<" ", "h", " ", "e">> >>,
       << <<"H_HO">>, <<" ", "h", " ", "o">> >>,
       << <<"H_MA">>, <<" ", "m", " ", "a">> >>,
       << <<"H_MI">>, <<" ", "m", " ", "i">> >>,
       << <<"H_MU">>, <<" ", "m", " ", "u">> >>,
       << <<"H_ME">>, <<" ", "m", " ", "e">> >>,
       << <<"H_MO">>, <<" ", "m", " ", "o">> >>,
       << <<"H_RA">>, <<" ", "r", " ", "a">> >>,
       << <<"H_RI">>, <<" ", "r", " ", "i">> >>,
       << <<"H_RU">>, <<" ", "r", " ", "u">> >>,
       << <<"H_RE">>, <<" ", "r", " ", "e">> >>,
       << <<"H_RO">>, <<" ", "r", " ", "o">> >>,
       << <<"H_GA">>, <<" ", "g", " ", "a">> >>,
       << <<"H_GI">>, <<" ", "g", " ", "i">> >>,
       << <<"H_GU">>, <<" ", "g", " ", "u">> >>,
       << <<"H_GE">>, <<" ", "g", " ", "e">> >>,
       << <<"H_GO">>, <<" ", "g", " ", "o">> >>,
       << <<"H_ZA">>, <<" ", "z", " ", "a">> >>,
       << <<"H_ZI">>, <<" ", "j", " ", "i">> >>,
       << <<"H_ZU">>, <<" ", "z", " ", "u">> >>,
       << <<"H_ZE">>, <<" ", "z", " ", "e">> >>,
       << <<"H_ZO">>, <<" ", "z", " ", "o">> >>,
       << <<"H_DA">>, <<" ", "d", " ", "a">> >>,
       << <<"H_DI">>, <<" ", "j", " ", "i">> >>,
       << <<"H_DU">>, <<" ", "z", " ", "u">> >>,
       << <<"H_DE">>, <<" ", "d", " ", "e">> >>,
       << <<"H_DO">>, <<" ", "d", " ", "o">> >>,
       << <<"H_BA">>, <<" ", "b", " ", "a">> >>,
       << <<"H_BI">>, <<" ", "b", " ", "i">> >>,
       << <<"H_BU">>, <<" ", "b", " ", "u">> >>,
       << <<"H_BE">>, <<" ", "b", " ", "e">> >>,
       << <<"H_BO">>, <<" ", "b", " ", "o">> >>,
       << <<"H_PA">>, <<" ", "p", " ", "a">> >>,
       << <<"H_PI">>, <<" ", "p", " ", "i">> >>,
       << <<"H_PU">>, <<" ", "p", " ", "u">> >>,
       << <<"H_PE">>, <<" ", "p", " ", "e">> >>,
       << <<"H_PO">>, <<" ", "p", " ", "o">> >>,
       << <<"H_YA">>, <<" ", "y", " ", "a">> >>,
       << <<"H_YU">>, <<" ", "y", " ", "u">> >>,
       << <<"H_YO">>, <<" ", "y", " ", "o">> >>,
       << <<"H_WA">>, <<" ", "w", " ", "a">> >>,
       << <<"H_WI">>, <<" ", "i">> >>,
       << <<"H_WE">>, <<" ", "e">> >>,
       << <<"H_N">>, <<" ", "N">> >>,
       << <<"H_SMALL_TU">>, <<" ", "q">> >>,
       << <<"LONG_MARK">>, <<":">> >>,
       << <<"H_SMALL_A">>, <<" ", "a">> >>,
       << <<"H_SMALL_I">>, <<" ", "i">> >>,
       << <<"H_SMALL_U">>, <<" ", "u">> >>,
       << <<"H_SMALL_E">>, <<" ", "e">> >>,
       << <<"H_SMALL_O">>, <<" ", "o">> >>,
       << <<"H_SMALL_WA">>, <<" ", "w", " ", "a">> >>,
       << <<"H_SMALL_O">>, <<" ", "o">> >>,
       << <<"H_WO">>, <<" ", "o">> >>
    >>

\* The chain .replace(Rules[lo])...replace(Rules[hi]), in table order.  The
\* range is halved so that the evaluation nests to the depth of log2 of the
\* table's length; the rules still run one after another, lo first.  (No
\* rule rewrites the empty string: every pattern is non-empty.)
RECURSIVE ApplyRules(_, _, _)
ApplyRules(s, lo, hi) ==
    IF s = <<>> THEN s
    ELSE IF lo = hi THEN Replace(s, Rules[lo][1], Rules[lo][2])
    ELSE LET mid == (lo + hi) \div 2
         IN  ApplyRules(ApplyRules(s, lo, mid), mid + 1, hi)

\* StripLeadingSpace whatever follows the space.
StripLeadingSpace_BeforeAnything(s) ==
    IF Len(s) >= 2 /\ s[1] = " " THEN Tail(s) ELSE s

\* re.sub(r'^ ([a-z]+)', r'\1', voca): a leading space goes when a lowercase
\* letter follows it.
StripLeadingSpace(s) ==
    IF Len(s) >= 2 /\ s[1] = " " /\ s[2] \in Lower THEN Tail(s) ELSE s

\* .replace(':+', ':'): str.replace, so ':+' is the two literal characters.
CollapseColons(s) == Replace(s, <<":", "+">>, <<":">>)

\* Unsupported with the digits in the character class.
Unsupported_DigitsPass(s) ==
    \E i \in 1..Len(s) :
        s[i] \notin ({" ", ":"} \cup Lower \cup Upper \cup Digit)

\* re.search(r'[^ a-zA-Z:]+', voca)
Unsupported(s) ==
    \E i \in 1..Len(s) : s[i] \notin ({" ", ":"} \cup Lower \cup Upper)

\* Rewritten with the chain cut before its last eight rules, the small
\* kana on their own and H_WO.
Rewritten_WithoutFallbacks(y) ==
    CollapseColons(StripLeadingSpace(ApplyRules(rstrip(y), 1, Len(Rules) - 8)))

\* The value of `voca` at the validation.
Rewritten(y) == CollapseColons(StripLeadingSpace(ApplyRules(rstrip(y), 1, Len(Rules))))

\* The call: what it raises, if anything, and the value of `voca`, which it
\* returns when it raises nothing.
yomi2voca(y) ==
    LET v == Rewritten(y)
    IN  [raised |-> IF Unsupported(v) THEN "UnsupportedTranscriptError"
                    ELSE "none",
         value |-> v]

-----------------------------------------------------------------------------
(* The transliterator on its own: one call of yomi2voca *)

\* Every character that occurs in a pattern of the table.
KanaDomain == UNION {{Rules[k][1][i] : i \in 1..Len(Rules[k][1])} : k \in 1..Len(Rules)}

\* The characters that are a pattern of the table by themselves.
SingleRuleChars == {c \in KanaDomain : \E k \in 1..Len(Rules) : Rules[k][1] = <<c>>}

\* The characters that occur only inside longer patterns.
ClusterOnlyChars == KanaDomain \ SingleRuleChars

\* The alphabet the spec calls validated: lowercase letters, colon,
\* uppercase N and the space separator.
ValidatedAlphabet == Lower \cup {":", "N", " "}

MaxYomiLen == 3

SeqsUpTo(S, n) == UNION {[1..m -> S] : m \in 0..n}

\* Kana that meet in the table's clusters: a three-character pattern, an
\* elongated kana, the nasal, the long-vowel mark, a small ya.
KanaChars == {"H_U", "VOICED_MARK", "H_SMALL_A", "H_KA", "H_N", "LONG_MARK",
              "H_SMALL_YA"}

\* Characters no rule rewrites: converted text, an uppercase letter, '+',
\* a digit.
AsciiChars == {" ", "a", "N", "A", ":", "+", "1"}

\* The characters that stand second or third in a pattern.
ClusterTails ==
    UNION {{Rules[k][1][i] : i \in 2..Len(Rules[k][1])} : k \in 1..Len(Rules)}

\* The arguments of the call: every string up to MaxYomiLen over KanaChars
\* and over AsciiChars, every pair of the two together, every character of
\* the table alone and next to (before or after) every cluster tail, and
\* the spec's example.
YomiInputs ==
    SeqsUpTo(KanaChars, MaxYomiLen)
        \cup SeqsUpTo(AsciiChars, MaxYomiLen)
        \cup SeqsUpTo(KanaChars \cup AsciiChars, 2)
        \cup {<<c>> : c \in KanaDomain}
        \cup {<<c, t>> : c \in KanaDomain, t \in ClusterTails}
        \cup {<<t, c>> : c \in KanaDomain, t \in ClusterTails}
        \cup {<<"H_NI", "H_HO", "H_N">>}

NoStrings == <<>>

\* No batch: no file, nothing segmented, nothing printed.
NoBatch ==
    /\ files = <<>>
    /\ basename = 1
    /\ segmented = <<>>
    /\ printed = <<>>

InitYomi ==
    /\ yomi \in YomiInputs
    /\ voca = <<>>
    /\ pc = "yomi2voca"
    /\ err = "none"
    /\ disable_silence_at_ends = FALSE
    /\ transcript = NoStrings
    /\ words = NoStrings
    /\ dfafile = NoStrings
    /\ dictfile = NoStrings
    /\ wlist = <<>>
    /\ log = NoStrings
    /\ reading_alignment = FALSE
    /\ results = <<>>
    /\ NoBatch

\* One call yomi2voca(yomi): it computes voca, and returns it or raises.
Transliterate ==
    /\ pc = "yomi2voca"
    /\ LET r == yomi2voca(yomi)
       IN  /\ voca' = r.value
           /\ IF r.raised # "none"
              THEN pc' = "raised" /\ err' = r.raised
              ELSE pc' = "returned" /\ err' = err
    /\ UNCHANGED yomi
    /\ UNCHANGED segmentVars
    /\ UNCHANGED batchVars

NextYomi == Transliterate

SpecYomi == InitYomi /\ [][NextYomi]_vars

-----------------------------------------------------------------------------
(* segment(): decimal text, the grammar and the dictionary *)

DigitChars == <<"0", "1", "2", "3", "4", "5", "6", "7", "8", "9">>

\* "{}".format(n) for n >= 0
RECURSIVE Decimal(_)
Decimal(n) ==
    IF n < 10 THEN <<DigitChars[n + 1]>>
    ELSE Decimal(n \div 10) \o <<DigitChars[(n % 10) + 1]>>

DigitValue(c) == CHOOSE d \in 0..9 : DigitChars[d + 1] = c

\* int(ds) for a non-empty string of digits
RECURSIVE int(_)
int(ds) ==
    IF Len(ds) = 1 THEN DigitValue(ds[1])
    ELSE 10 * int(SubSeq(ds, 1, Len(ds) - 1)) + DigitValue(ds[Len(ds)])

silB == <<"s", "i", "l", "B">>
silE == <<"s", "i", "l", "E">>

\* re.fullmatch(r'^[ \t\n]*$', line)
Blank(line) == \A i \in 1..Len(line) : line[i] \in {" ", "\t", "\n"}

\* The loop over the transcript's lines: the phone strings of the
\* non-blank lines, or the exception of the first line yomi2voca rejects.
RECURSIVE ReadWords(_)
ReadWords(lines) ==
    IF lines = <<>> THEN [raised |-> "none", value |-> <<>>]
    ELSE LET line == rstrip(Head(lines))
         IN  IF Blank(line) THEN ReadWords(Tail(lines))
             ELSE LET r == yomi2voca(line)
                  IN  IF r.raised # "none" THEN r
                      ELSE LET rest == ReadWords(Tail(lines))
                           IN  IF rest.raised # "none" THEN rest
                               ELSE [raised |-> "none",
                                     value |-> <<r.value>> \o rest.value]

\* DfaLine with n - i for its second field.
DfaLine_SecondFieldOffByOne(i, n) ==
    Decimal(i) \o <<" ">> \o Decimal(n - i) \o <<" ">> \o Decimal(i + 1)
        \o <<" ", "0", " ">> \o (IF i = 0 THEN <<"1">> ELSE <<"0">>)

\* "{} {} {} 0 {}".format(i, n - i - 1, i + 1, '1' if i == 0 else '0')
DfaLine(i, n) ==
    Decimal(i) \o <<" ">> \o Decimal(n - i - 1) \o <<" ">> \o Decimal(i + 1)
        \o <<" ", "0", " ">> \o (IF i = 0 THEN <<"1">> ELSE <<"0">>)

\* "{} -1 -1 1 0".format(n)
DfaLastLine(n) == Decimal(n) \o <<" ", "-", "1", " ", "-", "1", " ", "1", " ", "0">>

\* The lines written to the .dfa file for the words ws.
DfaText(ws) ==
    [k \in 1..(Len(ws) + 1) |->
        IF k <= Len(ws) THEN DfaLine(k - 1, Len(ws)) ELSE DfaLastLine(Len(ws))]

\* Symbol counting from 1.
Symbol_OneBased(i) == <<"w", "_">> \o Decimal(i + 1)

\* "w_{}".format(i)
Symbol(i) == <<"w", "_">> \o Decimal(i)

\* "{0} [w_{0}] {1}".format(i, word)
DictLine(i, word) ==
    Decimal(i) \o <<" ", "[">> \o Symbol(i) \o <<"]", " ">> \o word

\* The lines written to the .dict file for the words ws.
DictText(ws) == [k \in 1..Len(ws) |-> DictLine(k - 1, ws[k])]

\* wlist after i rounds of the loop: wlist["w_{}".format(i)] = words[i], a
\* later assignment to a key replacing an earlier one.
RECURSIVE WordListUpTo(_, _)
WordListUpTo(ws, n) ==
    IF n = 0 THEN <<>>
    ELSE LET prev == WordListUpTo(ws, n - 1)
             key  == Symbol(n - 1)
         IN  [sym \in (DOMAIN prev) \cup {key} |->
                 IF sym = key THEN ws[n] ELSE prev[sym]]

WordList(ws) == WordListUpTo(ws, Len(ws))

-----------------------------------------------------------------------------
(* segment(): the regular expressions of the log scan *)

BeginMarker == <<"b", "e", "g", "i", "n", " ", "f", "o", "r", "c", "e", "d", " ", "a", "l", "i", "g", "n", "m", "e", "n", "t">>
EndMarker == <<"e", "n", "d", " ", "f", "o", "r", "c", "e", "d", " ", "a", "l", "i", "g", "n", "m", "e", "n", "t">>

\* re.search of a literal text
Contains(s, sub) == \E i \in 1..(Len(s) - Len(sub) + 1) : At(s, i, sub)

\* Where the longest run of characters of S that starts at i ends: the first
\* position from i on that holds no character of S (Len(s) + 1: none).
RunEnd(s, i, S) ==
    CHOOSE j \in i..(Len(s) + 1) :
        /\ \A k \in i..(j - 1) : s[k] \in S
        /\ j = Len(s) + 1 \/ s[j] \notin S

NoMatch == [matched |-> FALSE]

\* The least element of a non-empty set of positions.
Leftmost(P) == CHOOSE i \in P : \A j \in P : i <= j

\* r'\[(w_\d+)\]' matched at position i: '[w_', digits, ']'.
SymbolAt(s, i) ==
    IF ~At(s, i, <<"[", "w", "_">>) THEN NoMatch
    ELSE LET e == RunEnd(s, i + 3, Digit)
         IN  IF e > i + 3 /\ e <= Len(s) /\ s[e] = "]"
             THEN [matched |-> TRUE, group |-> SubSeq(s, i + 1, e - 1)]
             ELSE NoMatch

\* re.search(r'\[(w_\d+)\]', line): the leftmost match.
SearchSymbol(s) ==
    LET P == {i \in 1..Len(s) : SymbolAt(s, i).matched}
    IN  IF P = {} THEN NoMatch ELSE SymbolAt(s, Leftmost(P))

\* The characters of the score token, [0-9\.-].
ScoreChars == Digit \cup {".", "-"}

\* r'\[ *(\d+) *(\d+)\] *[0-9\.-]+ *(.*)$' matched at position i.  Every
\* quantifier is greedy.  With spaces between the two numbers each group is
\* a whole run of digits; with none, the one run of digits is split by
\* backtracking and the second group is left its last digit.
TraceAt(s, i) ==
    IF i > Len(s) \/ s[i] # "[" THEN NoMatch
    ELSE LET j == RunEnd(s, i + 1, {" "})      \* first digit of group 1
             k == RunEnd(s, j, Digit)          \* past the first run of digits
             p == RunEnd(s, k, {" "})          \* past the spaces after it
             t == IF p > k THEN RunEnd(s, p, Digit) ELSE k   \* the ']'
             g1 == IF p > k THEN SubSeq(s, j, k - 1) ELSE SubSeq(s, j, k - 2)
             g2 == IF p > k THEN SubSeq(s, p, t - 1) ELSE SubSeq(s, k - 1, k - 1)
             u == RunEnd(s, t + 1, {" "})      \* first character of the score
             v == RunEnd(s, u, ScoreChars)     \* past the score
             w == RunEnd(s, v, {" "})          \* first character of group 3
         IN  IF /\ g1 # <<>>
                /\ g2 # <<>>
                /\ t <= Len(s)
                /\ s[t] = "]"
                /\ v > u
             THEN [matched |-> TRUE, beginframe |-> g1, endframe |-> g2,
                   unit |-> From(s, w)]
             ELSE NoMatch

\* re.search of the trace pattern: the leftmost match.
SearchTrace(s) ==
    LET P == {i \in 1..Len(s) : TraceAt(s, i).matched}
    IN  IF P = {} THEN NoMatch ELSE TraceAt(s, Leftmost(P))

\* ReSub with its result dropped: the line stays as it was.
ReSub_Discarded(symbol, phones, line) == line

\* re.sub(symbol, phones, line): the pattern is the text of a symbol, which
\* holds no special character, and it is replaced wherever it occurs.
ReSub(symbol, phones, line) == Replace(line, symbol, phones)

-----------------------------------------------------------------------------
(* segment(): frames to times, in units of 0.1 ms *)

\* self.offset, in ms
offset == 25

\* The units of 0.1 ms in one millisecond.
TicksPerMs == 10

\* One frame, 0.01 s.
FrameTicks == 100

\* offset_align: self.offset / 2 / 10**3 seconds
offset_align == (offset * TicksPerMs) \div 2

\* BeginTime without the test of frame 0.
BeginTime_AlwaysOffset(beginframe) == beginframe * FrameTicks + offset_align

\* begintime = beginframe * 0.01, plus offset_align unless beginframe is 0
BeginTime(beginframe) ==
    IF beginframe # 0 THEN beginframe * FrameTicks + offset_align
    ELSE beginframe * FrameTicks

\* endtime = (endframe + 1) * 0.01 + offset_align
EndTime(endframe) == (endframe + 1) * FrameTicks + offset_align

-----------------------------------------------------------------------------
(* segment(): one utterance, from its transcript to its results *)
(*                                                                         *)
(* One round of `for basename in files`.  The aligner is an external       *)
(* process: its log is whatever lines the scan reads, one line drawn per   *)
(* round of `for line in log`.  The .lab file receives the same triples as *)
(* `results`, formatted, and is not modelled; neither are the failures of  *)
(* the file system (IntermediateFileError).                                *)

\* reading_alignment after `if re.search(r'begin forced alignment', line)`.
ReadingAt(reading, line) == reading \/ Contains(line, BeginMarker)

\* ReadingAfter without the end marker's reset.
ReadingAfter_NeverLeaves(reading, line) == reading

\* reading_alignment after `if re.search(r'end forced alignment', line)`.
ReadingAfter(reading, line) == reading /\ ~Contains(line, EndMarker)

\* IsTraceLine without its first conjunct: the region is not consulted.
IsTraceLine_Ungated(reading, line) == line # <<>> /\ line[1] = "["

\* Whether the body of `if reading_alignment and re.match(r'\[', line)` runs.
IsTraceLine(reading, line) == reading /\ line # <<>> /\ line[1] = "["

\* The de-anonymization of a trace line, for the words ws and their wlist wl:
\* the line it becomes, or the KeyError of a symbol wlist does not hold.
Deanonymize(ws, wl, line) ==
    LET m == SearchSymbol(line)
    IN  IF Len(ws) > 1 /\ m.matched
        THEN IF m.group \in DOMAIN wl
             THEN [raised |-> "none", line |-> ReSub(m.group, wl[m.group], line)]
             ELSE [raised |-> "KeyError", line |-> line]
        ELSE [raised |-> "none", line |-> line]

\* The body of the `if`: the triple of a trace line, or the exception that
\* leaves it.  `matched.groups()` on the None of a failed search is an
\* AttributeError.  `line` is the line after the de-anonymization.
ParseTrace(ws, wl, line) ==
    LET d == Deanonymize(ws, wl, line)
        m == SearchTrace(d.line)
    IN  IF d.raised # "none" THEN [raised |-> d.raised, line |-> d.line]
        ELSE IF ~m.matched THEN [raised |-> "AttributeError", line |-> d.line]
        ELSE [raised |-> "none", line |-> d.line,
              triple |-> << BeginTime(int(m.beginframe)),
                            EndTime(int(m.endframe)),
                            m.unit >>]

\* The exceptions of the module: PSKError and its subclasses.
PSKErrors == {"PSKError", "EnvironmentError", "NoDataDirError",
              "DataDirIsNotADirectoryError", "IntermediateFileError",
              "UnsupportedTranscriptError"}

MaxLogLen == 3

TraceLine(b, e, score, label) ==
    <<"[", " ">> \o Decimal(b) \o <<" ">> \o Decimal(e) \o <<"]", " ">>
        \o score \o <<" ">> \o label

BeginBanner == <<"=", "=", "=", " ">> \o BeginMarker \o <<" ", "=", "=", "=">>
EndBanner == <<"=", "=", "=", " ">> \o EndMarker \o <<" ", "=", "=", "=">>
HeaderLine == <<"-", "-", " ", "p", "h", "o", "n", "e", "m", "e", " ", "a", "l", "i", "g", "n", "m", "e", "n", "t", " ", "-", "-">>
SilenceLine == TraceLine(0, 2, <<"-", "1", ".", "5">>, silB)
Word0Line == TraceLine(3, 5, <<"-", "2", ".", "0">>, <<"[", "w", "_", "0", "]">>)
Word1Line == TraceLine(10, 15, <<"-", "3", ".", "2">>, <<"[", "w", "_", "1", "]">>)
Word9Line == TraceLine(16, 19, <<"-", "1">>, <<"[", "w", "_", "9", "]">>)
GarbageLine == <<"[", "x">>
BracketBeginLine == <<"[">> \o BeginMarker
TraceBeginLine == TraceLine(6, 7, <<"0">>, BeginMarker)

\* The lines the aligner's log is drawn from: the two banners, a line that
\* is no trace line, trace lines (frame 0, anonymized words, a symbol no
\* utterance of the model has), a bracketed line of no trace shape, and two
\* bracketed lines that hold the start marker.
LogLines == {BeginBanner, EndBanner, HeaderLine, SilenceLine, Word0Line,
             Word1Line, Word9Line, GarbageLine, BracketBeginLine,
             TraceBeginLine}

\* The transcripts: an empty file, one line, two lines around a blank one,
\* and a line with a digit.
Transcripts ==
    { <<>>,
      << <<"H_NI", "H_HO", "H_N">> >>,
      << <<"H_KA">>, <<" ">>, <<"H_KI", "H_SMALL_YA", " ">> >>,
      << <<"H_NI">>, <<"1">> >> }

Init ==
    /\ disable_silence_at_ends \in BOOLEAN
    /\ transcript \in Transcripts
    /\ words = NoStrings
    /\ dfafile = NoStrings
    /\ dictfile = NoStrings
    /\ wlist = <<>>
    /\ log = NoStrings
    /\ reading_alignment = FALSE
    /\ results = <<>>
    /\ pc = "read"
    /\ err = "none"
    /\ yomi = <<>>
    /\ voca = <<>>
    /\ NoBatch

\* Lines 196-209: words from the transcript, between silB and silE unless
\* disabled.  An exception of yomi2voca leaves segment().
ReadTranscript ==
    /\ pc = "read"
    /\ LET r == ReadWords(transcript)
       IN  IF r.raised # "none"
           THEN /\ pc' = "raised"
                /\ err' = r.raised
                /\ words' = words
           ELSE /\ pc' = "encode"
                /\ err' = err
                /\ words' = IF disable_silence_at_ends THEN r.value
                            ELSE <<silB>> \o r.value \o <<silE>>
    /\ UNCHANGED << disable_silence_at_ends, transcript, dfafile, dictfile,
                    wlist, log, reading_alignment, results, yomi, voca >>
    /\ UNCHANGED batchVars

\* Lines 211-231: the grammar, the dictionary and wlist.
WriteGrammar ==
    /\ pc = "encode"
    /\ dfafile' = DfaText(words)
    /\ dictfile' = DictText(words)
    /\ wlist' = WordList(words)
    /\ pc' = "scan"
    /\ UNCHANGED << disable_silence_at_ends, transcript, words, log,
                    reading_alignment, results, err, yomi, voca >>
    /\ UNCHANGED batchVars

\* Lines 268-288: one round of `for line in log`, on the next line of the
\* aligner's log.
ScanLine(raw) ==
    /\ pc = "scan"
    /\ Len(log) < MaxLogLen
    /\ log' = Append(log, raw)
    /\ LET line    == rstrip(raw)
           reading == ReadingAt(reading_alignment, line)
       IN  IF IsTraceLine(reading, line)
           THEN LET r == ParseTrace(words, wlist, line)
                IN  IF r.raised # "none"
                    THEN /\ pc' = "raised"
                         /\ err' = r.raised
                         /\ reading_alignment' = reading
                         /\ results' = results
                    ELSE /\ pc' = pc
                         /\ err' = err
                         /\ results' = Append(results, r.triple)
                         /\ reading_alignment' = ReadingAfter(reading, r.line)
           ELSE /\ pc' = pc
                /\ err' = err
                /\ results' = results
                /\ reading_alignment' = ReadingAfter(reading, line)
    /\ UNCHANGED << disable_silence_at_ends, transcript, words, dfafile,
                    dictfile, wlist, yomi, voca >>
    /\ UNCHANGED batchVars

\* The end of the log: the loop ends and segment() returns the results.
EndOfLog ==
    /\ pc = "scan"
    /\ pc' = "done"
    /\ UNCHANGED << disable_silence_at_ends, transcript, words, dfafile,
                    dictfile, wlist, log, reading_alignment, results, err,
                    yomi, voca >>
    /\ UNCHANGED batchVars

Next ==
    \/ ReadTranscript
    \/ WriteGrammar
    \/ \E raw \in LogLines : ScanLine(raw)
    \/ EndOfLog

Spec == Init /\ [][Next]_vars

-----------------------------------------------------------------------------
(* segment(): the batch, and the command line that calls it *)
(*                                                                         *)
(* `files` holds one entry per .wav of data_dir, each with the lines of    *)
(* its transcript and the lines the aligner logs for it; `basename` is the *)
(* position of `for basename in files`, and `segmented` maps the positions *)
(* done so far to their results.  Each round runs the steps of one         *)
(* utterance above on the round's own transcript and log.  The checks of   *)
(* data_dir and the failures of the file system are not modelled.          *)

\* Lines 266-288: `for line in log` over a whole log, from the line `lines`
\* starts with: the results, or the exception that leaves the loop.
RECURSIVE ScanLog(_, _, _, _, _)
ScanLog(ws, wl, lines, reading, acc) ==
    IF lines = <<>> THEN [raised |-> "none", results |-> acc]
    ELSE LET line == rstrip(Head(lines))
             rd   == ReadingAt(reading, line)
         IN  IF IsTraceLine(rd, line)
             THEN LET r == ParseTrace(ws, wl, line)
                  IN  IF r.raised # "none"
                      THEN [raised |-> r.raised, results |-> acc]
                      ELSE ScanLog(ws, wl, Tail(lines),
                                   ReadingAfter(rd, r.line),
                                   Append(acc, r.triple))
             ELSE ScanLog(ws, wl, Tail(lines), ReadingAfter(rd, line), acc)

\* Lines 192-288: the body of `for basename in files` for one file, as one
\* function of the file: its results, or the exception that leaves it.
SegmentBody(disable, file) ==
    LET r == ReadWords(file.transcript)
    IN  IF r.raised # "none" THEN [raised |-> r.raised, results |-> <<>>]
        ELSE LET ws == IF disable THEN r.value
                       ELSE <<silB>> \o r.value \o <<silE>>
             IN  ScanLog(ws, WordList(ws), file.log, FALSE, <<>>)

MaxFiles == 3

Word1ThenWord10Line ==
    TraceLine(20, 21, <<"-", "0", ".", "5">>, <<"[", "w", "_", "1", "]", " ", "w", "_", "1", "0">>)

NihonFile ==
    [transcript |-> << <<"H_NI", "H_HO", "H_N">> >>,
     log |-> <<BeginBanner, Word1Line, EndBanner>>]
KakyaFile ==
    [transcript |-> << <<"H_KA">>, <<" ">>, <<"H_KI", "H_SMALL_YA", " ">> >>,
     log |-> <<BeginBanner, Word0Line, Word1Line>>]
DigitFile ==
    [transcript |-> << <<"H_NI">>, <<"1">> >>, log |-> <<>>]
GarbageFile ==
    [transcript |-> << <<"H_KA">> >>, log |-> <<BeginBanner, GarbageLine>>]
PrefixFile ==
    [transcript |-> << <<"H_NI", "H_HO", "H_N">> >>,
     log |-> <<BeginBanner, Word1ThenWord10Line, EndBanner>>]

\* The files of data_dir: two that segment() can finish, one whose
\* transcript holds a digit, one whose log holds a malformed line, and one
\* whose log holds a trace line with the text of its symbol twice.  No log
\* is longer than the least MaxLogLen.
Files == {NihonFile, KakyaFile, DigitFile, GarbageFile, PrefixFile}

InitBatch ==
    /\ disable_silence_at_ends \in BOOLEAN
    /\ files \in SeqsUpTo(Files, MaxFiles)
    /\ basename = 1
    /\ segmented = <<>>
    /\ printed = <<>>
    /\ pc = "segment"
    /\ err = "none"
    /\ transcript = NoStrings
    /\ words = NoStrings
    /\ dfafile = NoStrings
    /\ dictfile = NoStrings
    /\ wlist = <<>>
    /\ log = NoStrings
    /\ reading_alignment = FALSE
    /\ results = <<>>
    /\ yomi = <<>>
    /\ voca = <<>>

\* Lines 191-201: a round of `for basename in files` starts on the next
\* file, with its own transcript, grammar, dictionary, log and results.
NextFile ==
    /\ pc = "segment"
    /\ basename <= Len(files)
    /\ transcript' = files[basename].transcript
    /\ words' = NoStrings
    /\ dfafile' = NoStrings
    /\ dictfile' = NoStrings
    /\ wlist' = <<>>
    /\ log' = NoStrings
    /\ reading_alignment' = FALSE
    /\ results' = <<>>
    /\ pc' = "read"
    /\ UNCHANGED << disable_silence_at_ends, err, yomi, voca >>
    /\ UNCHANGED batchVars

\* Lines 268-288: one round of `for line in log`, on the next line of the
\* log of the round's file.
ScanFileLine ==
    /\ pc = "scan"
    /\ Len(log) < Len(files[basename].log)
    /\ ScanLine(files[basename].log[Len(log) + 1])

\* Lines 290-291: the log of the round's file is read, and the round ends
\* with `segmented[basename] = results`.
StoreResults ==
    /\ pc = "scan"
    /\ Len(log) = Len(files[basename].log)
    /\ segmented' = (basename :> results) @@ segmented
    /\ basename' = basename + 1
    /\ pc' = "segment"
    /\ UNCHANGED << files, printed, err, yomi, voca >>
    /\ UNCHANGED segmentVars

\* Line 292: `return segmented`, after the last file.
ReturnSegmented ==
    /\ pc = "segment"
    /\ basename > Len(files)
    /\ pc' = "returned"
    /\ UNCHANGED << err, yomi, voca >>
    /\ UNCHANGED batchVars
    /\ UNCHANGED segmentVars

\* Lines 628-635: __main__ prints the results segment() returned, or the
\* PSKError it raised; any other exception leaves __main__ too.
Main ==
    /\ pc \in {"returned", "raised"}
    /\ IF pc = "returned"
       THEN pc' = "printed" /\ printed' = segmented
       ELSE IF err \in PSKErrors
            THEN pc' = "caught" /\ printed' = printed
            ELSE pc' = "uncaught" /\ printed' = printed
    /\ UNCHANGED << files, basename, segmented, err, yomi, voca >>
    /\ UNCHANGED segmentVars

\* Nothing in the body of the loop catches an exception: one raised in a
\* round (ReadTranscript, ScanFileLine) leaves segment() for __main__.
NextBatch ==
    \/ NextFile
    \/ ReadTranscript
    \/ WriteGrammar
    \/ ScanFileLine
    \/ StoreResults
    \/ ReturnSegmented
    \/ Main

SpecBatch == InitBatch /\ [][NextBatch]_vars

-----------------------------------------------------------------------------
(* The log scan: which lines contribute (C1, C2) *)

\* A step that read one more line of the log.
ReadALine == Len(log') = Len(log) + 1

\* The line that step read, as the loop body sees it.
LineRead == rstrip(log'[Len(log')])

BeginsWithBracket(line) == line # <<>> /\ line[1] = "["

\* C1 as stated: a triple is appended only for a line that begins with '['
\* and is read while the scan is InsideAlignment, and every line read while
\* the scan is Outside, whatever it holds, appends nothing and does not make
\* the scan fail.
C1_OutsideLinesIgnored_AsStated ==
    [][ReadALine =>
           /\ results' # results =>
                  reading_alignment /\ BeginsWithBracket(LineRead)
           /\ ~reading_alignment => results' = results /\ pc' # "raised"]_vars

\* C1, amended: a triple is appended only for a line that begins with '['
\* and either is read while the scan is InsideAlignment or itself holds the
\* start marker; every line read while the scan is Outside that does not
\* hold the start marker appends nothing and does not make the scan fail.
C1_OutsideLinesIgnored ==
    [][ReadALine =>
           /\ results' # results =>
                  /\ reading_alignment \/ Contains(LineRead, BeginMarker)
                  /\ BeginsWithBracket(LineRead)
           /\ ~reading_alignment /\ ~Contains(LineRead, BeginMarker) =>
                  results' = results /\ pc' # "raised"]_vars

\* C1's case: a bracketed line of no trace shape was read while Outside and
\* ignored, and a trace line read inside the region gave a triple.
C1_Witness ==
    /\ pc = "scan"
    /\ log = <<GarbageLine, BeginBanner, SilenceLine>>
    /\ Len(results) = 1

\* Line k of the log lies in an alignment region: a line from the first to
\* the k-th holds the start marker, and no line from that one to the one
\* before the k-th holds the end marker.  A region runs from the line with
\* its start marker through the line with its end marker, both included.
InRegion(lg, k) ==
    \E j \in 1..k :
        /\ Contains(rstrip(lg[j]), BeginMarker)
        /\ \A m \in j..(k - 1) : ~Contains(rstrip(lg[m]), EndMarker)

\* Line k is a '['-line of a region.
RegionTraceLine(lg, k) == InRegion(lg, k) /\ BeginsWithBracket(rstrip(lg[k]))

\* A '['-line is well-formed for the utterance when its triple can be made.
WellFormed(line) == ParseTrace(words, wlist, rstrip(line)).raised = "none"

\* The triples of the well-formed '['-lines of the regions among the first
\* k lines, in line order.
RECURSIVE ExpectedTriples(_, _)
ExpectedTriples(lg, k) ==
    IF k = 0 THEN <<>>
    ELSE IF RegionTraceLine(lg, k) /\ WellFormed(lg[k])
         THEN Append(ExpectedTriples(lg, k - 1),
                     ParseTrace(words, wlist, rstrip(lg[k])).triple)
         ELSE ExpectedTriples(lg, k - 1)

-----------------------------------------------------------------------------
(* The log scan: times, failures and labels (C3, C4, C5) *)

\* The positions of the log's '['-lines of regions, in line order: the k-th
\* triple comes from the k-th of them.
RECURSIVE RegionTracePositions(_, _)
RegionTracePositions(lg, k) ==
    IF k = 0 THEN <<>>
    ELSE IF RegionTraceLine(lg, k)
         THEN Append(RegionTracePositions(lg, k - 1), k)
         ELSE RegionTracePositions(lg, k - 1)

\* The line the k-th triple comes from.
SourceLine(k) == log[RegionTracePositions(log, Len(log))[k]]

\* The frames (b, e) the model's trace lines report.
FramesOfLine(line) ==
    CASE line = SilenceLine    -> <<0, 2>>
      [] line = Word0Line      -> <<3, 5>>
      [] line = Word1Line      -> <<10, 15>>
      [] line = Word9Line      -> <<16, 19>>
      [] line = TraceBeginLine -> <<6, 7>>

\* C3: with the offset of 25 ms, the triple of a trace line with frames
\* (b, e) has, in units of 0.1 ms, beginTime 100*b when b = 0 and
\* 100*b + 125 otherwise, and endTime 100*(e+1) + 125 whatever b is.
C3_FrameTimes ==
    pc \in {"scan", "done"} =>
        \A k \in 1..Len(results) :
            LET b == FramesOfLine(SourceLine(k))[1]
                e == FramesOfLine(SourceLine(k))[2]
            IN  /\ results[k][1] = IF b = 0 THEN 100 * b ELSE 100 * b + 125
                /\ results[k][2] = 100 * (e + 1) + 125

\* C3's case: a line with frames (0, 2) gave 0 s and 0.0425 s, and the
\* spec's line with frames (10, 15) gave 0.1125 s and 0.1725 s.
C3_Witness ==
    /\ log = <<BeginBanner, SilenceLine, Word1Line>>
    /\ Len(results) = 2
    /\ results[1][1] = 0
    /\ results[1][2] = 425
    /\ results[2][1] = 1125
    /\ results[2][2] = 1725

\* C4 as stated: when a '['-line of a region has not the trace shape, the
\* scan fails with an error of the module's own taxonomy (a PSKError), the
\* spec's MalformedAlignmentLine.
C4_MalformedLineRaisesModuleError ==
    (/\ log # <<>>
     /\ RegionTraceLine(log, Len(log))
     /\ ~SearchTrace(Deanonymize(words, wlist, rstrip(log[Len(log)])).line).matched)
        => pc = "raised" /\ err \in PSKErrors \cup {"MalformedAlignmentLine"}

\* The i for which the label field of a trace line of the model is the
\* token [w_<i>] of a word of the utterance; -1 when there is none.
LabelIndex(line) ==
    CASE line = Word0Line /\ 0 < Len(words) -> 0
      [] line = Word1Line /\ 1 < Len(words) -> 1
      [] OTHER -> -1

-----------------------------------------------------------------------------
(* The grammar and the dictionary (C6, C7) *)

\* The words of a line of text: what stands between its single spaces.
RECURSIVE Split(_)
Split(s) ==
    IF s = <<>> THEN << <<>> >>
    ELSE LET rest == Split(Tail(s))
         IN  IF Head(s) = " " THEN << <<>> >> \o rest
             ELSE << <<Head(s)>> \o rest[1] >> \o Tail(rest)

\* The number a field of a grammar line writes.
Number(field) == IF field[1] = "-" THEN 0 - int(Tail(field)) ELSE int(field)

\* The numbers of a grammar line.
Fields(line) == [k \in 1..Len(Split(line)) |-> Number(Split(line)[k])]

\* C6: for N units the grammar has N + 1 lines: line i (from 0) reads
\* '<i> <N-i-1> <i+1> 0 <isStart>' with isStart 1 for i = 0 alone, the
\* second fields falling by one from N - 1 to 0, and the last line reads
\* '<N> -1 -1 1 0'; N = 0 gives '0 -1 -1 1 0' alone, and N = 1 gives
\* '0 0 1 0 1' and '1 -1 -1 1 0'.
C6_GrammarLines ==
    pc \in {"scan", "done"} =>
        LET N == Len(words)
        IN  /\ Len(dfafile) = N + 1
            /\ \A i \in 0..(N - 1) :
                   Fields(dfafile[i + 1]) =
                       <<i, N - i - 1, i + 1, 0, IF i = 0 THEN 1 ELSE 0>>
            /\ \A i \in 1..(N - 1) :
                   Fields(dfafile[i + 1])[2] < Fields(dfafile[i])[2]
            /\ N > 0 => Fields(dfafile[1])[2] = N - 1 /\ Fields(dfafile[N])[2] = 0
            /\ Fields(dfafile[N + 1]) = <<N, 0 - 1, 0 - 1, 1, 0>>
            /\ N = 0 => dfafile = << <<"0", " ", "-", "1", " ", "-", "1", " ", "1", " ", "0">> >>
            /\ N = 1 => dfafile = << <<"0", " ", "0", " ", "1", " ", "0", " ", "1">>,
                                     <<"1", " ", "-", "1", " ", "-", "1", " ", "1", " ", "0">> >>

\* C6's case: the grammar of three units, silB, "n i h o N" and silE.
C6_Witness ==
    /\ pc = "scan"
    /\ Len(words) = 3
    /\ dfafile = << <<"0", " ", "2", " ", "1", " ", "0", " ", "1">>,
                    <<"1", " ", "1", " ", "2", " ", "0", " ", "0">>,
                    <<"2", " ", "0", " ", "3", " ", "0", " ", "0">>,
                    <<"3", " ", "-", "1", " ", "-", "1", " ", "1", " ", "0">> >>

\* C7: for N units the dictionary has N lines, line i (from 0) reading
\* '<i> [w_<i>] <phoneString_i>', and wlist has the N keys w_0..w_{N-1},
\* w_i mapped to the phone string of the i-th unit, an inserted silB being
\* unit 0.
C7_DictionaryAndSymbols ==
    pc \in {"scan", "done"} =>
        LET N == Len(words)
            key(i) == <<"w", "_">> \o Decimal(i)
        IN  /\ Len(dictfile) = N
            /\ \A i \in 0..(N - 1) :
                   LET number == Split(dictfile[i + 1])[1]
                   IN  /\ int(number) = i
                       /\ dictfile[i + 1] =
                              number \o <<" ", "[", "w", "_">> \o number
                                  \o <<"]", " ">> \o words[i + 1]
            /\ DOMAIN wlist = {key(i) : i \in 0..(N - 1)}
            /\ Cardinality(DOMAIN wlist) = N
            /\ \A i \in 0..(N - 1) : wlist[key(i)] = words[i + 1]
            /\ ~disable_silence_at_ends =>
                   /\ wlist[<<"w", "_", "0">>] = silB
                   /\ dictfile[1] = <<"0", " ", "[", "w", "_", "0", "]", " ", "s", "i", "l", "B">>

\* C7's case: the dictionary of silB, "n i h o N" and silE.
C7_Witness ==
    /\ pc = "scan"
    /\ ~disable_silence_at_ends
    /\ dictfile = << <<"0", " ", "[", "w", "_", "0", "]", " ", "s", "i", "l", "B">>,
                     <<"1", " ", "[", "w", "_", "1", "]", " ", "n", " ", "i", " ", "h", " ", "o", " ", "N">>,
                     <<"2", " ", "[", "w", "_", "2", "]", " ", "s", "i", "l", "E">> >>
    /\ wlist[<<"w", "_", "1">>] = <<"n", " ", "i", " ", "h", " ", "o", " ", "N">>

-----------------------------------------------------------------------------
(* The transliterator (C8, C9, C10) *)

\* The characters of a string.
Chars(s) == {s[i] : i \in 1..Len(s)}

\* The call is over: it returned or raised.
CallOver == pc \in {"returned", "raised"}

C9_Idempotent_AsStated ==
    /\ CallOver /\ Chars(yomi) \subseteq ValidatedAlphabet =>
           pc = "returned" /\ voca = yomi
    /\ pc = "returned" =>
           yomi2voca(voca) = [raised |-> "none", value |-> voca]

\* C9, amended: yomi2voca returns unchanged every string of
\* validated-alphabet characters that neither ends with a space nor begins
\* with a space followed by a lowercase letter (it strips trailing spaces
\* and such a leading space); and it returns its own result unchanged:
\* yomi2voca(yomi2voca(x)) = yomi2voca(x) wherever yomi2voca(x) succeeds.
C9_Idempotent ==
    /\ (/\ CallOver
        /\ Chars(yomi) \subseteq ValidatedAlphabet
        /\ ~(yomi # <<>> /\ yomi[Len(yomi)] = " ")
        /\ ~(Len(yomi) >= 2 /\ yomi[1] = " " /\ yomi[2] \in Lower))
           => pc = "returned" /\ voca = yomi
    /\ pc = "returned" =>
           yomi2voca(voca) = [raised |-> "none", value |-> voca]

\* C9's case: a converted string that begins with a space before N came
\* back unchanged.
C9_Witness ==
    /\ pc = "returned"
    /\ yomi = <<" ", "N", "a">>
    /\ voca = yomi

\* C10 as stated: for every line of characters that occur in some pattern
\* of the table, those that occur only inside longer patterns included,
\* yomi2voca raises nothing and returns validated-alphabet characters only.
C10_TotalOnRuleDomain_AsStated ==
    CallOver /\ Chars(yomi) \subseteq KanaDomain =>
        pc = "returned" /\ Chars(voca) \subseteq ValidatedAlphabet

\* C10, amended: for every line of characters that are by themselves a
\* pattern of the table (every kana of the table and the long-vowel mark,
\* but not the small ya, yu, yo or the voiced mark, which occur only inside
\* longer patterns), in any order, yomi2voca raises nothing and returns
\* validated-alphabet characters only.
C10_TotalOnRuleDomain ==
    CallOver /\ Chars(yomi) \subseteq SingleRuleChars =>
        pc = "returned" /\ Chars(voca) \subseteq ValidatedAlphabet

\* C10's case: a small kana before the kana it would follow in a cluster.
C10_Witness ==
    /\ pc = "returned"
    /\ yomi = <<"H_SMALL_A", "H_KA">>
    /\ voca = <<"a", " ", "k", " ", "a">>

-----------------------------------------------------------------------------
(* The batch and the transcript error (C11) *)

\* What the body of the loop makes of the file at position i, taken alone.
Alone(i) == SegmentBody(disable_silence_at_ends, files[i])

\* __main__ has ended, one way or another.
MainEnded == pc \in {"printed", "caught", "uncaught"}

\* C11: in a batch where the only exception any utterance raises is
\* UnsupportedTranscriptError, and some utterance raises it, the caller
\* still receives the results of every other utterance, those after the
\* failing one included.
C11_UnsupportedAbortsOnlyThatUtterance ==
    ( /\ MainEnded
      /\ \A i \in 1..Len(files) :
            Alone(i).raised \in {"none", "UnsupportedTranscriptError"}
      /\ \E i \in 1..Len(files) :
            Alone(i).raised = "UnsupportedTranscriptError" )
    => \A i \in 1..Len(files) :
          Alone(i).raised = "none"
              => i \in DOMAIN printed /\ printed[i] = Alone(i).results

-----------------------------------------------------------------------------
(* The de-anonymization of a trace line (C12) *)

\* The words of the file at position i.
WordsOf(i) ==
    LET r == ReadWords(files[i].transcript)
    IN  IF disable_silence_at_ends THEN r.value
        ELSE <<silB>> \o r.value \o <<silE>>

\* The line of its log the k-th triple of file i comes from.
SourceLineOf(i, k) ==
    LET lg == files[i].log
    IN  rstrip(lg[RegionTracePositions(lg, Len(lg))[k]])

\* Where the first token [w_<i>] of a line starts.
TokenStart(s) == Leftmost({i \in 1..Len(s) : SymbolAt(s, i).matched})

\* A line with its first token [w_<i>] replaced by the phones, with or
\* without the brackets, and every other character as it was.
FirstTokenOnly(s, phones) ==
    LET p      == TokenStart(s)
        token  == <<"[">> \o SearchSymbol(s).group \o <<"]">>
        before == SubSeq(s, 1, p - 1)
        after  == From(s, p + Len(token))
    IN  { before \o phones \o after,
          before \o <<"[">> \o phones \o <<"]">> \o after }

\* C12: the label of a triple is the label field of its trace line with
\* only the first token [w_<i>] replaced by the phones of word i and every
\* other character verbatim, when the utterance has more than one unit; and
\* the label field as it stands in the log when the utterance has one unit
\* (or the line has no token).
C12_FirstOccurrenceOnly ==
    pc = "printed" =>
        \A i \in DOMAIN printed :
            \A k \in 1..Len(printed[i]) :
                LET raw == SourceLineOf(i, k)
                    m   == SearchSymbol(raw)
                IN  IF Len(WordsOf(i)) > 1 /\ m.matched
                    THEN printed[i][k][3] \in
                            { SearchTrace(x).unit :
                                x \in FirstTokenOnly(raw, WordList(WordsOf(i))[m.group]) }
                    ELSE printed[i][k][3] = SearchTrace(raw).unit

-----------------------------------------------------------------------------
(* The transliterator: what follows the rewrite rules (C13, C14) *)

\* The argument of the call is a line of kana: every character of it is a
\* character of the rewrite table.
KanaLine == Chars(yomi) \subseteq KanaDomain

\* C13: when yomi2voca returns for a line of kana, the returned string
\* holds no two consecutive colons.
C13_NoDoubledColon ==
    (pc = "returned" /\ KanaLine)
        => \A i \in 1..(Len(voca) - 1) : ~(voca[i] = ":" /\ voca[i + 1] = ":")

\* C14: when yomi2voca returns for a non-empty line of kana, the returned
\* string does not begin with a space, whichever letter its first token
\* starts with.
C14_NoLeadingSpace ==
    (pc = "returned" /\ KanaLine /\ yomi # <<>>)
        => voca # <<>> /\ voca[1] # " "

=============================================================================
